---- MODULE Spec2Model ----
(***************************************************************************)
(* State-machine model of the notnha imageboard (src/app.py): the boards,  *)
(* threads and posts tables, the upload directory, and the request         *)
(* handlers create_post, create_board, thread_view and board_view run by   *)
(* workers.  create_post is one step per database round trip or clock      *)
(* reading whose result another worker or the operator can change: the     *)
(* request's arrival with the board lookup and the upload (lines 113-138), *)
(* the clock reading for a new thread (140-145) and its flush (146-149),   *)
(* or the thread lookup with the lock test (151-154), the number read      *)
(* (155) and the clock reading (157), and the commit (160-174).            *)
(* create_board is its existence check (181-190) and its commit (191).     *)
(* Rows added or changed in a worker's session stay in                     *)
(* that worker's request record until its commit applies them in one step. *)
(* The database is the one DATABASE_URL names (line 12): SQLite, the       *)
(* default, or a server with sequences such as PostgreSQL.                 *)
(*                                                                         *)
(* Strings that the code splits (upload file names) are sequences of       *)
(* pieces; a piece is one character ("a", ".", "/", " ", "_", "-", the     *)
(* non-ASCII "日") or one extension word ("png", "PNG", "exe").  Columns    *)
(* that no modelled handler reads back (email, subject, comment,           *)
(* created_at, file_size, is_pinned, description) are not carried in the   *)
(* rows.  A thread_id field is a number, 0 when absent or empty.           *)
(*                                                                         *)
(* Five specifications run the same handlers:                              *)
(*   Spec        two workers posting text and reading, threads locked;     *)
(*   SpecClock   two workers posting text, the clock moving;               *)
(*   SpecBoards  two workers creating boards and reading;                  *)
(*   SpecSeq     one worker, every handler, posts of text;                 *)
(*   SpecForm    one worker, create_post with every form.                  *)
(***************************************************************************)
EXTENDS Integers, Sequences, FiniteSets

\* ------------------------------------------------------------------ bounds
MaxThreads == 2
MaxPosts == 3
MaxClock == 3
MaxFiles == 1

\* the workers that serve requests
Procs == {"w1", "w2"}

\* line 12: the database DATABASE_URL names; SQLite when it is not set
Databases == {"sqlite", "postgresql"}

\* ------------------------------------------------------------ input domains
\* form.get(key) of a key the form does not carry
Absent == "<absent>"
\* request.files.get('file') is None, or a FileStorage with an empty filename
NoUpload == << >>
\* the local variable filename when no upload was stored (None)
NoFile == [id |-> 0, ext |-> << >>]
\* thread_id absent or empty: `not thread_id` is true
NoThreadId == 0

BoardNameInputs == {"b", "x"}
NewBoardNames == {"b", "x"}
TitleInputs == {Absent, "Random"}
NameInputs == {Absent, "", "Bob"}
SubjectInputs == {"", "s"}
CommentInputs == {"", "c"}
ThreadIdInputs == 0..MaxThreads
UploadInputs ==
  { NoUpload,
    <<"a", ".", "PNG">>,
    <<"a", ".", "exe">>,
    <<"a">>,
    <<"日", ".", "png">> }

\* ------------------------------------------------------------------- state
\* database is fixed when the application starts.  nextThreadId is the next
\* value of the sequence behind Thread.id; SQLite has no sequence and does not
\* use it.  pc[p] is "idle", a position inside create_post ("new", "flush",
\* "lookup", "number", "bump", "post") or create_board ("board"), or the
\* outcome of the request worker p has just answered.
VARIABLES database, boards, threads, posts, files, now, nextThreadId,
          nextFileId, pc, req

vars == <<database, boards, threads, posts, files, now, nextThreadId,
          nextFileId, pc, req>>

\* ----------------------------------------------------------- pure helpers
Max(S) == CHOOSE m \in S : \A k \in S : k <= m

Min(S) == CHOOSE m \in S : \A k \in S : m <= k

\* str.lower() on one piece
LowerPiece(c) == IF c = "PNG" THEN "png" ELSE c

Lower(s) == [i \in 1..Len(s) |-> LowerPiece(s[i])]

HasDot(s) == \E i \in 1..Len(s) : s[i] = "."

LastDot(s) == Max({i \in 1..Len(s) : s[i] = "."})

\* s.rsplit('.', 1)[1], defined when HasDot(s)
RsplitExt(s) == SubSeq(s, LastDot(s) + 1, Len(s))

ALLOWED_EXTENSIONS ==
  { <<"png">>, <<"jpg">>, <<"jpeg">>, <<"gif">>, <<"webp">>, <<"webm">>, <<"mp4">> }

allowed_file(filename) ==
  HasDot(filename) /\ Lower(RsplitExt(filename)) \in ALLOWED_EXTENSIONS

\* werkzeug.utils.secure_filename, step by step
IsAscii(c) == c # "日"

ReplaceSep(s) == [i \in 1..Len(s) |-> IF s[i] = "/" THEN " " ELSE s[i]]

RECURSIVE LStripSpace(_)
LStripSpace(s) ==
  IF s # << >> /\ Head(s) = " " THEN LStripSpace(Tail(s)) ELSE s

\* the length of the word s begins with
RECURSIVE WordLen(_)
WordLen(s) ==
  IF s = << >> \/ Head(s) = " " THEN 0 ELSE 1 + WordLen(Tail(s))

\* "_".join(s.split()): the words of s, white space at the ends dropped and
\* every run of white space between two words replaced by one "_"
RECURSIVE JoinWords(_)
JoinWords(s) ==
  LET t    == LStripSpace(s)
      n    == WordLen(t)
      rest == LStripSpace(SubSeq(t, n + 1, Len(t)))
  IN  IF t = << >> THEN << >>
      ELSE IF rest = << >> THEN SubSeq(t, 1, n)
      ELSE SubSeq(t, 1, n) \o <<"_">> \o JoinWords(rest)

IsSafeChar(c) == c \in {"a", ".", "_", "-", "png", "PNG", "exe"}

RECURSIVE LStripDots(_)
LStripDots(s) ==
  IF s # << >> /\ Head(s) \in {".", "_"} THEN LStripDots(Tail(s)) ELSE s

RECURSIVE RStripDots(_)
RStripDots(s) ==
  IF s # << >> /\ s[Len(s)] \in {".", "_"}
  THEN RStripDots(SubSeq(s, 1, Len(s) - 1)) ELSE s

secure_filename(filename) ==
  LET ascii  == SelectSeq(filename, IsAscii)
      joined == JoinWords(ReplaceSep(ascii))
      safe   == SelectSeq(joined, IsSafeChar)
  IN  RStripDots(LStripDots(safe))

\* original_filename.rsplit('.', 1)[1] raises IndexError without a "."
GenerateRaises(original_filename) == ~HasDot(original_filename)

\* uid stands for str(uuid.uuid4())[:8], fresh at every call
generate_filename(original_filename, uid) ==
  [id |-> uid, ext |-> Lower(RsplitExt(original_filename))]

FormGet(value, default) == IF value = Absent THEN default ELSE value

\* ------------------------------------------------------------ table reads
\* Board.query.filter_by(name=...).first(): the board's id, 0 for None
BoardByName(name) ==
  IF \E i \in 1..Len(boards) : boards[i].name = name
  THEN CHOOSE i \in 1..Len(boards) : boards[i].name = name
  ELSE 0

ThreadIds == {t.id : t \in threads}

ThreadById(id) == CHOOSE t \in threads : t.id = id

PostsOf(thread_id) == {i \in 1..Len(posts) : posts[i].thread_id = thread_id}

\* the query ordered ascending: first() is then the thread's first post
get_next_post_number_Ascending(thread_id) ==
  IF PostsOf(thread_id) = {} THEN 1
  ELSE Min({posts[i].post_number : i \in PostsOf(thread_id)}) + 1

get_next_post_number(thread_id) ==
  IF PostsOf(thread_id) = {} THEN 1
  ELSE Max({posts[i].post_number : i \in PostsOf(thread_id)}) + 1

\* ------------------------------------------------------------ request data
NullReq ==
  [thread_id |-> 0, is_new |-> FALSE, board_id |-> 0, post_number |-> 0,
   loaded_bumped_at |-> 0, bumped_at |-> 0, name |-> "", filename |-> NoFile,
   board_name |-> "", title |-> "", asked |-> 0, content |-> FALSE]

\* the positions of a handler that has not answered yet
InProgress == {"new", "flush", "lookup", "number", "bump", "post", "board"}

\* a handler returns (or raises): the response is `result`, the session is gone
Finish(p, result) ==
  /\ pc' = [pc EXCEPT ![p] = result]
  /\ req' = [req EXCEPT ![p] = NullReq]

\* create_post returns (or raises) while handling request r: what stays of
\* the request is what it asked for (the board, the thread_id of the form,
\* whether the form had a subject, a comment or an upload with an allowed
\* extension) and the file it stored
Answer(p, result, r) ==
  /\ pc' = [pc EXCEPT ![p] = result]
  /\ req' = [req EXCEPT ![p] =
       [NullReq EXCEPT !.board_id = r.board_id, !.asked = r.asked,
                       !.content = r.content, !.filename = r.filename]]

Init ==
  /\ database \in Databases
  /\ boards = << [name |-> "b", title |-> "Random"],
                 [name |-> "g", title |-> "Technology"],
                 [name |-> "v", title |-> "Video Games"] >>
  /\ threads = {}
  /\ posts = << >>
  /\ files = {}
  /\ now = 1
  /\ nextThreadId = 1
  /\ nextFileId = 1
  /\ pc = [p \in Procs |-> "idle"]
  /\ req = [p \in Procs |-> NullReq]

\* ---------------------------------------------------------------- database
\* SQLite admits one writing transaction at a time: a worker that has flushed
\* its new thread holds the write lock until it commits or rolls back, and
\* the INSERT or UPDATE of anyone else (p: a worker, or the operator) waits
\* for it
WriteLockHeld(p) ==
  /\ database = "sqlite"
  /\ \E q \in Procs \ {p} : pc[q] = "post" /\ req[q].is_new

\* the id the INSERT of line 147 gives the thread: under SQLite one more than
\* the largest rowid of the table (an id that was rolled back is given out
\* again), otherwise the next value of the sequence, which a rollback does not
\* return
NewThreadId ==
  IF database = "sqlite"
  THEN Max({t.id : t \in threads} \cup {0}) + 1
  ELSE nextThreadId

\* ------------------------------------------------------------- create_post
\* line 152: thread.is_locked
IsLocked(thread) == thread.is_locked

\* the flushed row committed at once, as under an autocommit connection
ThreadsAfterFlush_Autocommit(thread) == threads \cup {thread}

\* lines 146-147: db.session.add(thread); db.session.flush().  The INSERT runs
\* inside the worker's open transaction, so the committed threads table, which
\* is what other workers read, is as before.
ThreadsAfterFlush(thread) == threads

\* line 127: file and file.filename and allowed_file(file.filename)
UploadAccepted(file) == file # NoUpload /\ allowed_file(file)

\* lines 113-138: the board lookup, the form, the upload and, for a request
\* without thread_id, the validation
CreatePostReceive(p, board_name, name_in, subject_in, comment_in, thread_id, file) ==
  LET board    == BoardByName(board_name)
      name     == FormGet(name_in, "Anonymous")
      subject  == FormGet(subject_in, "")
      comment  == FormGet(comment_in, "")
      accepted == UploadAccepted(file)
      content  == subject # "" \/ comment # "" \/ accepted
      original_filename == secure_filename(file)
      \* None until generate_filename has returned
      filename == IF accepted /\ ~GenerateRaises(original_filename)
                  THEN generate_filename(original_filename, nextFileId)
                  ELSE NoFile
      r == [NullReq EXCEPT !.board_id = board, !.name = name,
                           !.filename = filename, !.asked = thread_id,
                           !.content = content]
  IN
  /\ pc[p] = "idle"
  /\ accepted => nextFileId <= MaxFiles
  /\ IF board = 0
     THEN \* first_or_404
          /\ Finish(p, "NotFound")
          /\ UNCHANGED <<files, nextFileId>>
     ELSE IF accepted /\ GenerateRaises(original_filename)
     THEN \* IndexError in generate_filename: nothing stored yet
          /\ Answer(p, "IndexError", r)
          /\ UNCHANGED <<files, nextFileId>>
     ELSE /\ IF accepted
             THEN \* line 131: file.save
                  /\ files' = files \cup {filename}
                  /\ nextFileId' = nextFileId + 1
             ELSE UNCHANGED <<files, nextFileId>>
          /\ IF thread_id # NoThreadId
             THEN /\ pc' = [pc EXCEPT ![p] = "lookup"]
                  /\ req' = [req EXCEPT ![p] = r]
             ELSE IF subject = "" /\ comment = "" /\ filename = NoFile
             THEN Answer(p, "ValidationError", r)
             ELSE /\ pc' = [pc EXCEPT ![p] = "new"]
                  /\ req' = [req EXCEPT ![p] = r]
  /\ UNCHANGED <<database, boards, threads, posts, now, nextThreadId>>

\* a post of text alone: no name, subject or file field in the form
CreatePostText(p) ==
  \E board_name \in BoardNameInputs, comment_in \in CommentInputs,
     thread_id \in ThreadIdInputs :
    CreatePostReceive(p, board_name, Absent, Absent, comment_in, thread_id,
                      NoUpload)

\* a post with any combination of the form's fields
CreatePostForm(p) ==
  \E board_name \in BoardNameInputs, name_in \in NameInputs,
     subject_in \in SubjectInputs, comment_in \in CommentInputs,
     thread_id \in ThreadIdInputs, file \in UploadInputs :
    CreatePostReceive(p, board_name, name_in, subject_in, comment_in,
                      thread_id, file)

\* lines 140-145: the Thread object, stamped with the clock
CreatePostStamp(p) ==
  /\ pc[p] = "new"
  /\ pc' = [pc EXCEPT ![p] = "flush"]
  /\ req' = [req EXCEPT ![p] = [req[p] EXCEPT !.bumped_at = now]]
  /\ UNCHANGED <<database, boards, threads, posts, files, now, nextThreadId,
                 nextFileId>>

\* lines 146-149: db.session.add(thread); db.session.flush(), which waits for
\* the write lock; thread_id = thread.id; post_number = 1
CreatePostFlush(p) ==
  /\ pc[p] = "flush"
  /\ ~WriteLockHeld(p)
  /\ NewThreadId <= MaxThreads
  /\ threads' = ThreadsAfterFlush(
       [id |-> NewThreadId, board_id |-> req[p].board_id,
        bumped_at |-> req[p].bumped_at, is_locked |-> FALSE])
  /\ nextThreadId' = IF database = "sqlite" THEN nextThreadId
                     ELSE nextThreadId + 1
  /\ pc' = [pc EXCEPT ![p] = "post"]
  /\ req' = [req EXCEPT ![p] =
       [req[p] EXCEPT !.thread_id = NewThreadId, !.is_new = TRUE,
                      !.post_number = 1]]
  /\ UNCHANGED <<database, boards, posts, files, now, nextFileId>>

\* lines 151-154: Thread.query.get_or_404(thread_id) and the lock test
CreatePostLookup(p) ==
  /\ pc[p] = "lookup"
  /\ IF req[p].asked \notin ThreadIds
     THEN Answer(p, "NotFound", req[p])
     ELSE IF IsLocked(ThreadById(req[p].asked))
     THEN Answer(p, "Locked", req[p])
     ELSE /\ pc' = [pc EXCEPT ![p] = "number"]
          /\ req' = [req EXCEPT ![p] =
               [req[p] EXCEPT !.thread_id = req[p].asked,
                  !.loaded_bumped_at = ThreadById(req[p].asked).bumped_at]]
  /\ UNCHANGED <<database, boards, threads, posts, files, now, nextThreadId,
                 nextFileId>>

\* line 155: post_number = get_next_post_number(thread_id)
CreatePostNumber(p) ==
  /\ pc[p] = "number"
  /\ pc' = [pc EXCEPT ![p] = "bump"]
  /\ req' = [req EXCEPT ![p] =
       [req[p] EXCEPT !.post_number = get_next_post_number(req[p].thread_id)]]
  /\ UNCHANGED <<database, boards, threads, posts, files, now, nextThreadId,
                 nextFileId>>

\* line 157: thread.bumped_at = datetime.utcnow(), on the loaded object
CreatePostBump(p) ==
  /\ pc[p] = "bump"
  /\ pc' = [pc EXCEPT ![p] = "post"]
  /\ req' = [req EXCEPT ![p] = [req[p] EXCEPT !.bumped_at = now]]
  /\ UNCHANGED <<database, boards, threads, posts, files, now, nextThreadId,
                 nextFileId>>

\* the number taken again from the table when the row is inserted
NewPost_NumberedAtInsert(r) ==
  [thread_id |-> r.thread_id,
   post_number |-> IF r.is_new THEN 1 ELSE get_next_post_number(r.thread_id),
   name |-> r.name, filename |-> r.filename]

\* lines 160-171: the Post row built from the handler's locals
NewPost(r) ==
  [thread_id |-> r.thread_id, post_number |-> r.post_number,
   name |-> r.name, filename |-> r.filename]

\* the session's pending thread changes as the commit writes them: the INSERT
\* of the new thread, or the UPDATE of bumped_at (line 157), which the session
\* emits only when the value assigned differs from the one it loaded
ThreadsAfterCommit(r) ==
  IF r.is_new
  THEN threads \cup {[id |-> r.thread_id, board_id |-> r.board_id,
                      bumped_at |-> r.bumped_at, is_locked |-> FALSE]}
  ELSE IF r.bumped_at = r.loaded_bumped_at
  THEN threads
  ELSE {IF t.id = r.thread_id THEN [t EXCEPT !.bumped_at = r.bumped_at] ELSE t
        : t \in threads}

\* lines 160-174: the Post, db.session.add(post) and db.session.commit()
CreatePostCommit(p) ==
  /\ pc[p] = "post"
  /\ ~WriteLockHeld(p)
  /\ Len(posts) < MaxPosts
  /\ threads' = ThreadsAfterCommit(req[p])
  /\ posts' = Append(posts, NewPost(req[p]))
  /\ Answer(p, IF req[p].is_new THEN "Created" ELSE "Replied", req[p])
  /\ UNCHANGED <<database, boards, files, now, nextThreadId, nextFileId>>

\* the request ends at its flush or between flush and commit (an exception
\* such as the time-out of a wait for the write lock, a dropped connection):
\* the session is removed and its transaction rolled back
CreatePostAbort(p) ==
  /\ pc[p] \in {"flush", "post"}
  /\ Answer(p, "Aborted", req[p])
  /\ UNCHANGED <<database, boards, threads, posts, files, now, nextThreadId,
                 nextFileId>>

\* ------------------------------------------------------------ create_board
\* the name column without unique=True
UniqueNameViolated_NoConstraint(name) == FALSE

\* line 29: name is unique=True; the INSERT of a second row with the name fails
UniqueNameViolated(name) == BoardByName(name) # 0

\* lines 181-190: the form, the existence check and the Board added to the
\* session; the answered request keeps the name it asked for
CreateBoardRequest(p, name, title_in) ==
  /\ pc[p] = "idle"
  /\ IF title_in = Absent
     THEN \* request.form['title'] raises: 400
          Finish(p, "BadRequest")
     ELSE IF BoardByName(name) # 0
     THEN /\ pc' = [pc EXCEPT ![p] = "Conflict"]
          /\ req' = [req EXCEPT ![p] = [NullReq EXCEPT !.board_name = name]]
     ELSE /\ pc' = [pc EXCEPT ![p] = "board"]
          /\ req' = [req EXCEPT ![p] =
               [NullReq EXCEPT !.board_name = name, !.title = title_in]]
  /\ UNCHANGED <<database, boards, threads, posts, files, now, nextThreadId,
                 nextFileId>>

CreateBoardCheck(p) ==
  \E name \in NewBoardNames, title_in \in TitleInputs :
    CreateBoardRequest(p, name, title_in)

\* line 191: db.session.commit()
CreateBoardCommit(p) ==
  /\ pc[p] = "board"
  /\ ~WriteLockHeld(p)
  /\ IF UniqueNameViolated(req[p].board_name)
     THEN \* IntegrityError: 500
          /\ Finish(p, "IntegrityError")
          /\ UNCHANGED boards
     ELSE /\ boards' = Append(boards, [name |-> req[p].board_name,
                                       title |-> req[p].title])
          /\ pc' = [pc EXCEPT ![p] = "BoardCreated"]
          /\ req' = [req EXCEPT ![p] =
               [NullReq EXCEPT !.board_name = req[p].board_name]]
  /\ UNCHANGED <<database, threads, posts, files, now, nextThreadId,
                 nextFileId>>

\* ----------------------------------------------------------------- readers
\* lines 99-109
thread_view(board_name, thread_id) ==
  LET board == BoardByName(board_name)
  IN  IF board = 0 THEN "NotFound"
      ELSE IF ~\E t \in threads : t.id = thread_id /\ t.board_id = board
      THEN "NotFound"
      ELSE IF PostsOf(thread_id) = {} THEN "ThreadHasNoPosts"
      ELSE "ThreadPage"

\* lines 83-96: page 1 holds every thread while a board has at most 10
board_view(board_name, page) ==
  LET board == BoardByName(board_name)
      items == IF page = 1 THEN {t \in threads : t.board_id = board} ELSE {}
  IN  IF board = 0 THEN "NotFound"
      ELSE IF \E t \in items : Cardinality(PostsOf(t.id)) = 0
      THEN "BoardPageWithEmptyThread"
      ELSE "BoardPage"

ThreadView(p) ==
  /\ pc[p] = "idle"
  /\ \E board_name \in BoardNameInputs, thread_id \in 1..MaxThreads :
       Finish(p, thread_view(board_name, thread_id))
  /\ UNCHANGED <<database, boards, threads, posts, files, now, nextThreadId,
                 nextFileId>>

BoardView(p) ==
  /\ pc[p] = "idle"
  /\ \E board_name \in BoardNameInputs, page \in 1..2 :
       Finish(p, board_view(board_name, page))
  /\ UNCHANGED <<database, boards, threads, posts, files, now, nextThreadId,
                 nextFileId>>

\* ------------------------------------------------------------- environment
\* the response is sent and the worker takes the next request
Respond(p) ==
  /\ pc[p] \notin {"idle"} \cup InProgress
  /\ pc' = [pc EXCEPT ![p] = "idle"]
  /\ req' = [req EXCEPT ![p] = NullReq]
  /\ UNCHANGED <<database, boards, threads, posts, files, now, nextThreadId,
                 nextFileId>>

\* datetime.utcnow() moves on
Tick ==
  /\ now < MaxClock
  /\ now' = now + 1
  /\ UNCHANGED <<database, boards, threads, posts, files, nextThreadId,
                 nextFileId, pc, req>>

\* is_locked is set on the row by the operator, whose UPDATE waits for the
\* write lock like a worker's; no route writes it
LockThread ==
  \E t \in threads :
    /\ ~t.is_locked
    /\ ~WriteLockHeld("operator")
    /\ threads' = (threads \ {t}) \cup {[t EXCEPT !.is_locked = TRUE]}
    /\ UNCHANGED <<database, boards, posts, files, now, nextThreadId,
                   nextFileId, pc, req>>

\* the steps of create_post after the request's arrival
CreatePostStep(p) ==
  \/ CreatePostStamp(p)
  \/ CreatePostFlush(p)
  \/ CreatePostLookup(p)
  \/ CreatePostNumber(p)
  \/ CreatePostBump(p)
  \/ CreatePostCommit(p)
  \/ CreatePostAbort(p)

\* concurrent workers posting text and reading, while the operator locks
\* threads
Next ==
  \/ \E p \in Procs : CreatePostText(p)
  \/ \E p \in Procs : CreatePostStep(p)
  \/ \E p \in Procs : ThreadView(p)
  \/ \E p \in Procs : BoardView(p)
  \/ \E p \in Procs : Respond(p)
  \/ LockThread

Spec == Init /\ [][Next]_vars

\* concurrent workers posting text while the clock moves
NextClock ==
  \/ \E p \in Procs : CreatePostText(p)
  \/ \E p \in Procs : CreatePostStep(p)
  \/ \E p \in Procs : Respond(p)
  \/ Tick

SpecClock == Init /\ [][NextClock]_vars

\* concurrent workers creating boards and reading
NextBoards ==
  \/ \E p \in Procs : CreateBoardCheck(p)
  \/ \E p \in Procs : CreateBoardCommit(p)
  \/ \E p \in Procs : ThreadView(p)
  \/ \E p \in Procs : BoardView(p)
  \/ \E p \in Procs : Respond(p)

SpecBoards == Init /\ [][NextBoards]_vars

\* one worker, so every request is handled to completion before the next
\* begins; posts of text
NextSeq ==
  \/ CreatePostText("w1")
  \/ CreatePostStep("w1")
  \/ CreateBoardCheck("w1")
  \/ CreateBoardCommit("w1")
  \/ ThreadView("w1")
  \/ BoardView("w1")
  \/ Respond("w1")
  \/ LockThread

SpecSeq == Init /\ [][NextSeq]_vars

\* one worker serving create_post with every combination of the form's fields
NextForm ==
  \/ CreatePostForm("w1")
  \/ CreatePostStep("w1")
  \/ Respond("w1")
  \/ LockThread

SpecForm == Init /\ [][NextForm]_vars

\* ================================================================== claims

\* the rank of row i among the rows of its thread, in insertion order
PostRank(i) ==
  Cardinality({j \in PostsOf(posts[i].thread_id) : j <= i})

\* C1: when requests are handled one at a time, the k-th post committed to a
\* thread carries post_number k, so a thread with n posts holds exactly the
\* numbers 1..n, whatever was posted to other threads in between.
C1_PostNumbersDense ==
  /\ \A i \in 1..Len(posts) : posts[i].post_number = PostRank(i)
  /\ \A t \in threads :
       {posts[i].post_number : i \in PostsOf(t.id)}
         = 1..Cardinality(PostsOf(t.id))

\* a thread got a reply after another thread was started in between
C1_Witness ==
  /\ Len(posts) = 3
  /\ posts[1].thread_id = posts[3].thread_id
  /\ posts[2].thread_id # posts[1].thread_id
  /\ posts[3].post_number = 2

\* C2: a create_post request on an existing board whose thread_id names a
\* locked thread goes on to the thread lookup, whatever else its form holds,
\* and is answered Locked there, and neither step changes the tables; a
\* locked thread stays locked, so the thread is still locked at the lookup.
C2_LockedReplyAnsweredLocked ==
  [][\A p \in Procs :
       /\ (/\ pc[p] = "idle"
           /\ pc'[p] # "idle"
           /\ req'[p].board_id # 0
           /\ \E t \in threads : t.id = req'[p].asked /\ t.is_locked)
          => (pc'[p] = "lookup" /\ UNCHANGED <<boards, threads, posts>>)
       /\ (/\ pc[p] = "lookup"
           /\ pc'[p] # "lookup"
           /\ \E t \in threads : t.id = req[p].asked /\ t.is_locked)
          => (pc'[p] = "Locked" /\ UNCHANGED <<boards, threads, posts>>)
       /\ \A t \in threads :
            t.is_locked => \E u \in threads' : u.id = t.id /\ u.is_locked]_vars

\* C3: every committed thread, which is every thread a reader can see, has
\* its post number 1, and no reader is ever shown a thread without posts.
C3_NoThreadWithoutPost ==
  /\ \A t \in threads : \E i \in PostsOf(t.id) : posts[i].post_number = 1
  /\ \A p \in Procs : pc[p] \notin {"ThreadHasNoPosts", "BoardPageWithEmptyThread"}

\* a new-thread request was aborted after its flush (the sequence has moved
\* past its id), another one is flushed and not yet committed, and a reader
\* has just been shown the board
C3_Witness ==
  \E p \in Procs, q \in Procs :
    /\ threads = {}
    /\ pc[p] = "post" /\ req[p].is_new /\ req[p].thread_id = 2
    /\ pc[q] = "BoardPage"

\* C4: no step lowers the committed bumped_at of a thread.
C4_BumpedAtNeverDecreases ==
  [][\A t \in threads : \A u \in threads' :
       u.id = t.id => u.bumped_at >= t.bumped_at]_vars

\* C5: a create_post request on an existing board with no thread_id is
\* answered ValidationError and adds no row when subject and comment are empty
\* and no attachment is accepted; otherwise it goes on to build and flush a
\* new thread with post number 1, and its commit adds exactly one thread and
\* one post, numbered 1, of that thread.
C5_NewThreadNeedsContent ==
  [][\A p \in Procs :
       /\ (/\ pc[p] = "idle"
           /\ pc'[p] # "idle"
           /\ req'[p].board_id # 0
           /\ req'[p].asked = NoThreadId)
          => IF ~req'[p].content
             THEN /\ pc'[p] = "ValidationError"
                  /\ UNCHANGED <<boards, threads, posts>>
             ELSE pc'[p] = "new"
       /\ (pc[p] = "new" /\ pc'[p] # "new") => pc'[p] = "flush"
       /\ (pc[p] = "flush" /\ pc'[p] \notin {"flush", "Aborted"})
          => /\ pc'[p] = "post"
             /\ req'[p].is_new
             /\ req'[p].post_number = 1
       /\ (pc[p] = "post" /\ req[p].is_new /\ pc'[p] \notin {"post", "Aborted"})
          => /\ pc'[p] = "Created"
             /\ Cardinality(threads') = Cardinality(threads) + 1
             /\ Len(posts') = Len(posts) + 1
             /\ posts'[Len(posts')].post_number = 1
             /\ \E t \in threads' \ threads :
                  t.id = posts'[Len(posts')].thread_id]_vars

NoTwoBoardsShareName ==
  \A i \in 1..Len(boards), j \in 1..Len(boards) :
    boards[i].name = boards[j].name => i = j

\* C6: a create_board request for a name some board already has is answered
\* Conflict and leaves the boards as they were, and at no time do two boards
\* share a name, also when two requests for one new name interleave.
C6_BoardNamesStayUnique ==
  /\ []NoTwoBoardsShareName
  /\ [][\A p \in Procs :
          (/\ pc[p] = "idle"
           /\ pc'[p] # "idle"
           /\ req'[p].board_name # ""
           /\ BoardByName(req'[p].board_name) # 0)
          => (pc'[p] = "Conflict" /\ boards' = boards)]_vars

\* two requests for the same new name both passed the existence check; one
\* inserted the board and the other was refused by the table
C6_Witness ==
  \E p \in Procs, q \in Procs :
    /\ pc[p] = "IntegrityError"
    /\ pc[q] = "BoardCreated"
    /\ req[q].board_name = "x"
    /\ Len(boards) = 4

\* C7: a request answered Locked has changed nothing: its answer leaves the
\* tables as they were and the upload directory holds no file that the request
\* stored.
C7_LockedChangesNothing ==
  [][\A p \in Procs :
       (pc[p] = "lookup" /\ pc'[p] = "Locked")
       => (/\ req[p].filename \notin files'
           /\ boards' = boards /\ threads' = threads /\ posts' = posts)]_vars

\* C8: every stored post has a non-empty name.
C8_StoredNameNonEmpty ==
  \A i \in 1..Len(posts) : posts[i].name # ""

\* C9: the commit of a reply inserts the row with the number the handler read
\* before, whatever other workers committed since; nothing refuses it.
C9_StaleNumberIsInserted ==
  [][\A p \in Procs :
       (pc[p] = "post" /\ pc'[p] \notin {"post", "Aborted"})
       => (/\ pc'[p] \in {"Created", "Replied"}
           /\ Len(posts') = Len(posts) + 1
           /\ posts'[Len(posts')].thread_id = req[p].thread_id
           /\ posts'[Len(posts')].post_number = req[p].post_number)]_vars

\* two replies read the same maximum and both committed: one thread holds two
\* posts with the same post_number
C9_Witness ==
  \E i \in 1..Len(posts), j \in 1..Len(posts) :
    /\ i < j
    /\ posts[i].thread_id = posts[j].thread_id
    /\ posts[i].post_number = posts[j].post_number
    /\ posts[j].post_number = 2

\* C10: a reply that is committed was submitted through the board its thread
\* belongs to.
C10_ReplyStaysOnItsBoard ==
  [][\A p \in Procs :
       (pc[p] = "post" /\ pc'[p] = "Replied")
       => ThreadById(req[p].thread_id).board_id = req[p].board_id]_vars

====
